---- MODULE Spec2Model ----
(***************************************************************************)
(* Model of the HeapAnalyzer sandbox: the Run Controller (useSandbox), the *)
(* Result Validator (validateEvents) and the message channel between the  *)
(* controller and its execution hosts (Web Workers running sandboxWorker). *)
(* Spec follows the controller and its hosts' messages; HostSpec follows   *)
(* one host and the instrumented program through one run request.          *)
(***************************************************************************)
EXTENDS Integers, Sequences, FiniteSets, TLC

\* ------------------------------------------------------------------ bounds
\* Number of workers (non-blank runs) one behaviour may create.
MaxRuns == 3

\* ------------------------------------------------------- program constants
TIMEOUT_MS == 10000

\* JavaScript null in a string-typed slot (SandboxState.error, a ref).
Null == "<null>"
NoRef == 0

\* ------------------------------------------------------------- JS values
\* A property value of an untrusted object: its typeof and its payload.
Undef == [ty |-> "undefined", n |-> 0, s |-> ""]
Num(n) == [ty |-> "number", n |-> n, s |-> ""]
\* Numbers that are not whole: n + 0.5, and NaN.
Half(n) == [ty |-> "number", n |-> n, s |-> ".5"]
NaN == [ty |-> "number", n |-> 0, s |-> "NaN"]
\* v <= 0 for a number v; every comparison with NaN is false.
LeqZero(v) ==
    IF v.s = "NaN" THEN FALSE
    ELSE IF v.s = ".5" THEN v.n < 0
    ELSE v.n <= 0
Str(s) == [ty |-> "string", n |-> 0, s |-> s]
Bool == [ty |-> "boolean", n |-> 0, s |-> ""]

\* Property names an entry of msg.events may carry; "extra" stands for any
\* property outside the MemoryEvent shape.
AllFields == {"time", "action", "id", "size", "label", "extra"}
NoFields == [k \in AllFields |-> Undef]

\* An entry of the raw array: null, a primitive, or an object with fields.
NullEntry == [kind |-> "null", f |-> NoFields]
PrimEntry == [kind |-> "string", f |-> NoFields]
Obj(f) == [kind |-> "object", f |-> f]

AllocEntry ==
    Obj([NoFields EXCEPT !["time"] = Num(1), !["action"] = Str("alloc"),
                         !["id"] = Str("x_1"), !["size"] = Num(1),
                         !["label"] = Str("x")])
FreeEntry ==
    Obj([NoFields EXCEPT !["time"] = Num(2), !["action"] = Str("free"),
                         !["id"] = Str("x_1")])
BadEntry == Obj([NoFields EXCEPT !["extra"] = Str("event")])
WrongTypedEntry ==
    Obj([NoFields EXCEPT !["time"] = Num(3), !["action"] = Str("free"),
                         !["id"] = Num(7), !["size"] = Str("big"),
                         !["label"] = Bool, !["extra"] = Str("evil")])

UndefinedEntry == [kind |-> "undefined", f |-> NoFields]
StringTimeEntry ==
    Obj([NoFields EXCEPT !["time"] = Str("1"), !["action"] = Str("alloc")])
NoActionEntry ==
    Obj([NoFields EXCEPT !["time"] = Num(1), !["id"] = Str("x_1")])
UnknownActionEntry ==
    Obj([NoFields EXCEPT !["time"] = Num(4), !["action"] = Str("leak"),
                         !["id"] = Str("x_1")])

\* msg.events as received: anything; isArray is Array.isArray(raw).
Arr(items) == [isArray |-> TRUE, items |-> items]
NotArray == [isArray |-> FALSE, items |-> <<>>]
\* A value that is not an array and has indexed members: a string, a plain
\* object with numeric keys.
ArrayLike(items) == [isArray |-> FALSE, items |-> items]

\* ---------------------------------------------------------- validateEvents
Truthy(ev) == ev.kind \notin {"null", "undefined"}

KeepEntry(ev) ==
    /\ Truthy(ev)
    /\ ev.kind = "object"
    /\ ev.f["time"].ty = "number"
    /\ ev.f["action"].ty = "string"

EventKeys_anyType(ev) ==
    {"time", "action"}
        \cup { k \in {"id", "size", "label"} : ev.f[k].ty # "undefined" }

EventKeys(ev) ==
    {"time", "action"}
        \cup (IF ev.f["id"].ty = "string" THEN {"id"} ELSE {})
        \cup (IF ev.f["size"].ty = "number" THEN {"size"} ELSE {})
        \cup (IF ev.f["label"].ty = "string" THEN {"label"} ELSE {})

PushedEvent_spread(ev) ==
    [k \in EventKeys(ev)
              \cup { x \in {"extra"} : ev.f[x].ty # "undefined" } |-> ev.f[k]]

PushedEvent(ev) == [k \in EventKeys(ev) |-> ev.f[k]]

RECURSIVE validateLoop_prepends(_, _)
validateLoop_prepends(items, events) ==
    IF items = <<>> THEN events
    ELSE validateLoop_prepends(Tail(items),
                               IF KeepEntry(Head(items))
                               THEN <<PushedEvent(Head(items))>> \o events
                               ELSE events)

RECURSIVE validateLoop(_, _)
validateLoop(items, events) ==
    IF items = <<>> THEN events
    ELSE validateLoop(Tail(items),
                      IF KeepEntry(Head(items))
                      THEN Append(events, PushedEvent(Head(items)))
                      ELSE events)

validateEvents_anyIterable(raw) == validateLoop(raw.items, <<>>)

validateEvents(raw) ==
    IF ~raw.isArray THEN <<>> ELSE validateLoop(raw.items, <<>>)

\* ------------------------------------------------------------------ inputs
\* Source texts handed to run(): characters are " " (whitespace) or "a".
Codes == {<<>>, <<" ">>, <<"a">>, <<" ", "a", " ">>}

IsBlank(code) == \A i \in 1 .. Len(code) : code[i] \in {" ", "\t", "\n"}
Languages == {"JavaScript", "Python"}

IsWhitespace(c) == c \in {" ", "\t", "\n"}

RECURSIVE TrimStart(_)
TrimStart(s) ==
    IF s = <<>> THEN s
    ELSE IF IsWhitespace(Head(s)) THEN TrimStart(Tail(s)) ELSE s

RECURSIVE TrimEnd(_)
TrimEnd(s) ==
    IF s = <<>> THEN s
    ELSE IF IsWhitespace(s[Len(s)]) THEN TrimEnd(SubSeq(s, 1, Len(s) - 1))
    ELSE s

trim_identity(s) == s

trim(s) == TrimEnd(TrimStart(s))

\* Messages a host may post. The channel carries a message's type; its
\* payload is read when the controller's handler runs, and is drawn there.
RawEventsInputs ==
    { Arr(<<>>),
      Arr(<<AllocEntry, BadEntry, NullEntry, FreeEntry>>),
      Arr(<<PrimEntry, WrongTypedEntry>>),
      NotArray }

StatusMsg == [type |-> "status", status |-> "loading-pyodide",
              events |-> NotArray, stdout |-> "", stderr |-> "", error |-> ""]
ResultMsg(ev, out, err) ==
    [type |-> "result", status |-> "", events |-> ev,
     stdout |-> out, stderr |-> err, error |-> ""]
ErrorMsg(text, out, err) ==
    [type |-> "error", status |-> "", events |-> NotArray,
     stdout |-> out, stderr |-> err, error |-> text]
ResultMsgs ==
    { ResultMsg(Arr(<<>>), "hi", ""),
      ResultMsg(Arr(<<AllocEntry, BadEntry, NullEntry, FreeEntry>>), "out", "warn"),
      ResultMsg(NotArray, "", "") }
ErrorMsgs ==
    { ErrorMsg("SyntaxError: unexpected token", "partial", "oops") }
Msgs == {StatusMsg} \cup ResultMsgs \cup ErrorMsgs
FaultTexts == {"", "Worker crashed"}

\* ------------------------------------------------------------------- state
VARIABLES
    state,       \* React state: {status, events, stdout, stderr, error}
    workerRef,   \* workerRef.current: a worker id or NoRef
    timeoutRef,  \* timeoutRef.current: a timer id or NoRef
    timers,      \* armed timers of the event loop: records [id, ms]
    nextId,      \* id of the next Worker / timer to be created
    inbox,       \* per worker: run messages posted to it, not yet handled
    sent,        \* per worker: number of run messages ever posted to it
    wpc,         \* per worker: position of the host, or "terminated"
    outbox       \* per worker: types of the events queued for the controller

vars == <<state, workerRef, timeoutRef, timers, nextId,
          inbox, sent, wpc, outbox>>

\* One execution host followed through the handling of one run request.
VARIABLES
    jsRuntime,   \* the './jsRuntime' module sandboxWorker is bundled with
    hreq,        \* the message self.onmessage of the host receives
    hpc,         \* position of the host in the handling of hreq
    tracker,     \* __events, __allocs, __time, __stdout, __stderr
    posted       \* the messages the host has posted to the controller

hostVars == <<jsRuntime, hreq, hpc, tracker, posted>>

\* One call of validateEvents, and one call of a transformer, on their own.
VARIABLES
    rawEvents,     \* the argument of validateEvents
    validated,     \* what validateEvents returned
    userCode,      \* the argument of instrumentJs / instrumentPython
    instrumented,  \* the program text the transformer returned
    fpc            \* "off", or where the call stands

callVars == <<rawEvents, validated, userCode, instrumented, fpc>>

Workers == 1 .. (nextId - 1)
Terminated == { w \in Workers : wpc[w] = "terminated" }
Live == Workers \ Terminated

INITIAL_STATE ==
    [status |-> "idle", events |-> <<>>, stdout |-> "", stderr |-> "",
     error |-> Null]

Init ==
    /\ state = INITIAL_STATE
    /\ workerRef = NoRef
    /\ timeoutRef = NoRef
    /\ timers = {}
    /\ nextId = 1
    /\ inbox = <<>>
    /\ sent = <<>>
    /\ wpc = <<>>
    /\ outbox = <<>>

\* ------------------------------------------------------------- controller
NO_CODE_ERROR == "No code to run."
TIMEOUT_ERROR == "Execution timed out after 10 seconds. Check for infinite loops."
NO_EVENTS_HINT ==
    "Code ran but produced no memory events. Use alloc(label, size) to allocate."
WORKER_ERROR == "Worker error"

Busy(st) == st \in {"running", "loading-pyodide"}

\* The two refs and the platform objects they point to.
Refs == [timeoutRef |-> timeoutRef, timers |-> timers,
         workerRef |-> workerRef, wpc |-> wpc, inbox |-> inbox]

SetRefs(r) ==
    /\ timeoutRef' = r.timeoutRef
    /\ timers' = r.timers
    /\ workerRef' = r.workerRef
    /\ wpc' = r.wpc
    /\ inbox' = r.inbox

\* clearTimeout(id): the timer with that id is no longer armed.
clearTimeout(r, id) ==
    [r EXCEPT !.timers = { t \in r.timers : t.id # id }]

\* Worker.terminate(): the worker stops; what it has not handled is dropped.
terminate(r, w) ==
    [r EXCEPT !.wpc[w] = "terminated", !.inbox[w] = <<>>]

cleanup_keepsWorker(r) ==
    LET r1 == IF r.timeoutRef # NoRef
              THEN [clearTimeout(r, r.timeoutRef) EXCEPT !.timeoutRef = NoRef]
              ELSE r
    IN  [r1 EXCEPT !.workerRef = NoRef]

cleanup_keepsTimer(r) ==
    LET r1 == [r EXCEPT !.timeoutRef = NoRef]
    IN  IF r1.workerRef # NoRef
        THEN [terminate(r1, r1.workerRef) EXCEPT !.workerRef = NoRef]
        ELSE r1

cleanup_leavesWorkerRef(r) ==
    LET r1 == IF r.timeoutRef # NoRef
              THEN [clearTimeout(r, r.timeoutRef) EXCEPT !.timeoutRef = NoRef]
              ELSE r
    IN  IF r1.workerRef # NoRef
        THEN terminate(r1, r1.workerRef)
        ELSE r1

\* cleanup(): clear the timer timeoutRef points to, terminate the worker
\* workerRef points to, null both refs.
cleanup(r) ==
    LET r1 == IF r.timeoutRef # NoRef
              THEN [clearTimeout(r, r.timeoutRef) EXCEPT !.timeoutRef = NoRef]
              ELSE r
    IN  IF r1.workerRef # NoRef
        THEN [terminate(r1, r1.workerRef) EXCEPT !.workerRef = NoRef]
        ELSE r1

\* The request run() posts to the new worker.
runMessage_trimmed(language, code) ==
    [type |-> "run", language |-> language, code |-> trim(code)]

runMessage(language, code) ==
    [type |-> "run", language |-> language, code |-> code]

armTimeout_never(r, id) == r

\* timeoutRef.current = setTimeout(callback, TIMEOUT_MS)
armTimeout(r, id) ==
    [r EXCEPT !.timeoutRef = id,
              !.timers = @ \cup {[id |-> id, ms |-> TIMEOUT_MS]}]

\* run(language, code)
run(language, code) ==
    /\ UNCHANGED <<hostVars, callVars>>
    /\ LET c == cleanup(Refs) IN
       IF trim(code) = <<>>
       THEN /\ state' = [INITIAL_STATE EXCEPT !.status = "error",
                                               !.error = NO_CODE_ERROR]
            /\ SetRefs(c)
            /\ UNCHANGED <<nextId, sent, outbox>>
       ELSE /\ nextId <= MaxRuns
            /\ state' = [INITIAL_STATE EXCEPT !.status = "running"]
            /\ SetRefs(LET created == [c EXCEPT !.workerRef = nextId,
                                                !.wpc = Append(@, "idle"),
                                                !.inbox = Append(@, <<>>)]
                           armed == armTimeout(created, nextId)
                       IN  [armed EXCEPT !.inbox[nextId] =
                                            <<runMessage(language, code)>>])
            /\ nextId' = nextId + 1
            /\ sent' = Append(sent, 1)
            /\ outbox' = Append(outbox, <<>>)

stop_alwaysIdle ==
    /\ SetRefs(cleanup(Refs))
    /\ state' = [state EXCEPT !.status = "idle"]
    /\ UNCHANGED <<nextId, sent, outbox>>
    /\ UNCHANGED <<hostVars, callVars>>

\* stop()
stop ==
    /\ SetRefs(cleanup(Refs))
    /\ state' = [state EXCEPT !.status =
                     IF Busy(state.status) THEN "idle" ELSE state.status]
    /\ UNCHANGED <<nextId, sent, outbox>>
    /\ UNCHANGED <<hostVars, callVars>>

\* The setTimeout callback of run(): an armed timer fires.
timeoutCallback(t) ==
    /\ t \in timers
    /\ SetRefs(cleanup([Refs EXCEPT !.timers = timers \ {t}]))
    /\ state' = [state EXCEPT !.status = "timeout", !.error = TIMEOUT_ERROR]
    /\ UNCHANGED <<nextId, sent, outbox>>
    /\ UNCHANGED <<hostVars, callVars>>

statusState_ignored(prev, msg) == prev

\* setState of the status branch of worker.onmessage.
statusState(prev, msg) == [prev EXCEPT !.status = msg.status]

resultState_errorOnEmpty(msg) ==
    LET events == validateEvents(msg.events) IN
    [status |-> IF Len(events) > 0 THEN "success" ELSE "error",
     events |-> events,
     stdout |-> msg.stdout,
     stderr |-> msg.stderr,
     error  |-> IF Len(events) = 0 THEN NO_EVENTS_HINT ELSE Null]

\* setState of the result branch of worker.onmessage.
resultState(msg) ==
    LET events == validateEvents(msg.events) IN
    [status |-> IF Len(events) > 0 THEN "success" ELSE "success",
     events |-> events,
     stdout |-> msg.stdout,
     stderr |-> msg.stderr,
     error  |-> IF Len(events) = 0 THEN NO_EVENTS_HINT ELSE Null]

errorState_dropsOutput(msg) ==
    [status |-> "error", events |-> <<>>, stdout |-> "", stderr |-> "",
     error |-> msg.error]

\* setState of the error branch of worker.onmessage.
errorState(msg) ==
    [status |-> "error", events |-> <<>>, stdout |-> msg.stdout,
     stderr |-> msg.stderr, error |-> msg.error]

terminalRefs_keepsWorker(r, w) ==
    LET r1 == IF r.timeoutRef # NoRef
              THEN [clearTimeout(r, r.timeoutRef) EXCEPT !.timeoutRef = NoRef]
              ELSE r
    IN  [r1 EXCEPT !.workerRef = NoRef]

terminalRefs_keepsTimer(r, w) ==
    [terminate(r, w) EXCEPT !.workerRef = NoRef]

\* The refs after a terminal message handled by the onmessage of worker w.
terminalRefs(r, w) ==
    LET r1 == IF r.timeoutRef # NoRef
              THEN [clearTimeout(r, r.timeoutRef) EXCEPT !.timeoutRef = NoRef]
              ELSE r
    IN  [terminate(r1, w) EXCEPT !.workerRef = NoRef]

\* worker.onmessage of the worker w created by run(): the handler closes
\* over w and over the shared refs.
onmessage(w, msg) ==
    /\ w \in Workers
    /\ outbox[w] # <<>>
    /\ Head(outbox[w]) = msg.type
    /\ IF msg.type = "status"
       THEN /\ state' = statusState(state, msg)
            /\ UNCHANGED <<timeoutRef, timers, workerRef, wpc, inbox>>
       ELSE /\ SetRefs(terminalRefs(Refs, w))
            /\ state' = IF msg.type = "result" THEN resultState(msg)
                        ELSE errorState(msg)
    /\ outbox' = [outbox EXCEPT ![w] = Tail(@)]
    /\ UNCHANGED <<nextId, sent>>
    /\ UNCHANGED <<hostVars, callVars>>

\* setState of worker.onerror: err.message || 'Worker error'.
faultState(text) ==
    [status |-> "error", events |-> <<>>, stdout |-> "", stderr |-> "",
     error |-> IF text # "" THEN text ELSE WORKER_ERROR]

\* worker.onerror of the worker w created by run().
onerror(w, text) ==
    /\ w \in Workers
    /\ outbox[w] # <<>>
    /\ Head(outbox[w]) = "fault"
    /\ SetRefs(cleanup(Refs))
    /\ state' = faultState(text)
    /\ outbox' = [outbox EXCEPT ![w] = Tail(@)]
    /\ UNCHANGED <<nextId, sent>>
    /\ UNCHANGED <<hostVars, callVars>>

\* ------------------------------------------------------- execution host
\* self.onmessage of sandboxWorker, up to the call of the runtime: a Python
\* run reports 'loading-pyodide' first.
workerOnmessage(w) ==
    /\ w \in Live
    /\ wpc[w] = "idle"
    /\ inbox[w] # <<>>
    /\ LET m == Head(inbox[w]) IN
       /\ inbox' = [inbox EXCEPT ![w] = Tail(@)]
       /\ IF m.language = "JavaScript"
          THEN /\ wpc' = [wpc EXCEPT ![w] = "runJs"]
               /\ UNCHANGED outbox
          ELSE /\ wpc' = [wpc EXCEPT ![w] = "runPython"]
               /\ outbox' = [outbox EXCEPT ![w] = Append(@, "status")]
    /\ UNCHANGED <<state, workerRef, timeoutRef, timers, nextId, sent>>
    /\ UNCHANGED <<hostVars, callVars>>

\* The runtime returns and the handler posts the terminal 'result'.
workerResult(w) ==
    /\ w \in Live
    /\ wpc[w] \in {"runJs", "runPython"}
    /\ wpc' = [wpc EXCEPT ![w] = "done"]
    /\ outbox' = [outbox EXCEPT ![w] = Append(@, "result")]
    /\ UNCHANGED <<state, workerRef, timeoutRef, timers, nextId,
                   inbox, sent>>
    /\ UNCHANGED <<hostVars, callVars>>

\* The run fails and a terminal 'error' is posted.
workerError(w) ==
    /\ w \in Live
    /\ wpc[w] \in {"runJs", "runPython"}
    /\ wpc' = [wpc EXCEPT ![w] = "done"]
    /\ outbox' = [outbox EXCEPT ![w] = Append(@, "error")]
    /\ UNCHANGED <<state, workerRef, timeoutRef, timers, nextId,
                   inbox, sent>>
    /\ UNCHANGED <<hostVars, callVars>>

\* runJs by indirect eval: the instrumented program posts its own terminal
\* message, evaluates to undefined, and the catch of self.onmessage posts an
\* 'error' after it, in the same task.
workerEvalReturn(w, first) ==
    /\ w \in Live
    /\ wpc[w] = "runJs"
    /\ wpc' = [wpc EXCEPT ![w] = "done"]
    /\ outbox' = [outbox EXCEPT ![w] = @ \o <<first, "error">>]
    /\ UNCHANGED <<state, workerRef, timeoutRef, timers, nextId,
                   inbox, sent>>
    /\ UNCHANGED <<hostVars, callVars>>

\* The host itself faults: the worker script fails to load or to evaluate,
\* before self.onmessage can run (the handler catches what the runtimes
\* throw). An error event is queued for worker.onerror.
workerFault(w) ==
    /\ w \in Live
    /\ wpc[w] = "idle"
    /\ wpc' = [wpc EXCEPT ![w] = "done"]
    /\ outbox' = [outbox EXCEPT ![w] = Append(@, "fault")]
    /\ UNCHANGED <<state, workerRef, timeoutRef, timers, nextId,
                   inbox, sent>>
    /\ UNCHANGED <<hostVars, callVars>>

\* Events a terminated worker had already queued for the controller may
\* still be dispatched, or be discarded by the platform.
discard(w) ==
    /\ w \in Terminated
    /\ outbox[w] # <<>>
    /\ outbox' = [outbox EXCEPT ![w] = <<>>]
    /\ UNCHANGED <<state, workerRef, timeoutRef, timers, nextId,
                   inbox, sent, wpc>>
    /\ UNCHANGED <<hostVars, callVars>>

\* ------------------------------------------------ instrumented program
\* The event ceiling of alloc and free. The source has 10000; the model
\* runs the same comparison against a ceiling it can reach.
MAX_EVENTS == 3
\* Lines a run writes to each of stdout and stderr.
MaxLines == 1

Undefined == "<undefined>"

LABEL_ERROR == "alloc: label must be a string"
SIZE_ERROR == "alloc: size must be a positive number"
ID_ERROR == "free: id must be a string returned by alloc()"
LIMIT_ERROR == "Event limit reached (10,000). Reduce allocations."
NO_RESULT_ERROR ==
    "Code did not produce a result. Make sure your code uses alloc() and free()."
USER_ERROR == "undefinedFunction is not defined"
SYNTAX_ERROR == "Unexpected token ';'"
IMPORT_ERROR == "importScripts not available - cannot load Pyodide."
\* int(float('nan'))
INT_NAN_ERROR == "cannot convert float NaN to integer"

\* The tracker of a fresh instrumented program.
NewTracker ==
    [events |-> <<>>, allocs |-> <<>>, time |-> 0,
     stdout |-> <<>>, stderr |-> <<>>]

\* Outcome of a tracking call: the tracker after it, and the error it threw
\* (Null when it returned).
Returned(t) == [trk |-> t, error |-> Null]
Threw(t, text) == [trk |-> t, error |-> text]

\* label + '_' + __time
SynthId(label, time) == label \o "_" \o ToString(time)

AllocEvent(time, id, size, label) ==
    Obj([NoFields EXCEPT !["time"] = Num(time), !["action"] = Str("alloc"),
                         !["id"] = Str(id), !["size"] = size,
                         !["label"] = label])
FreeEvent(time, action, id) ==
    Obj([NoFields EXCEPT !["time"] = Num(time), !["action"] = Str(action),
                         !["id"] = Str(id)])
EndEvent(time) ==
    Obj([NoFields EXCEPT !["time"] = Num(time), !["action"] = Str("end")])

\* __allocs.set(id, v) and __allocs.delete(id)
MapSet(m, id, v) == [k \in DOMAIN m \cup {id} |-> IF k = id THEN v ELSE m[k]]
MapDelete(m, id) == [k \in DOMAIN m \ {id} |-> m[k]]

alloc_idFromLabel(t, label, size) ==
    IF label.ty # "string" THEN Threw(t, LABEL_ERROR)
    ELSE IF size.ty # "number" \/ LeqZero(size) THEN Threw(t, SIZE_ERROR)
    ELSE IF Len(t.events) >= MAX_EVENTS THEN Threw(t, LIMIT_ERROR)
    ELSE LET time == t.time + 1
             id == label.s
         IN  Returned([t EXCEPT
                 !.time = time,
                 !.allocs = MapSet(@, id, [label |-> label, size |-> size]),
                 !.events = Append(@, AllocEvent(time, id, size, label))])

\* alloc(label, size) of the JavaScript surface.
alloc(t, label, size) ==
    IF label.ty # "string" THEN Threw(t, LABEL_ERROR)
    ELSE IF size.ty # "number" \/ LeqZero(size) THEN Threw(t, SIZE_ERROR)
    ELSE IF Len(t.events) >= MAX_EVENTS THEN Threw(t, LIMIT_ERROR)
    ELSE LET time == t.time + 1
             id == SynthId(label.s, time)
         IN  Returned([t EXCEPT
                 !.time = time,
                 !.allocs = MapSet(@, id, [label |-> label, size |-> size]),
                 !.events = Append(@, AllocEvent(time, id, size, label))])

free_noTick(t, id) ==
    IF id.ty # "string" THEN Threw(t, ID_ERROR)
    ELSE IF Len(t.events) >= MAX_EVENTS THEN Threw(t, LIMIT_ERROR)
    ELSE IF id.s \notin DOMAIN t.allocs
         THEN Returned([t EXCEPT
                 !.events = Append(@, FreeEvent(t.time, "double_free", id.s))])
         ELSE Returned([t EXCEPT
                 !.allocs = MapDelete(@, id.s),
                 !.events = Append(@, FreeEvent(t.time, "free", id.s))])

free_forgetsOnDoubleFree(t, id) ==
    IF id.ty # "string" THEN Threw(t, ID_ERROR)
    ELSE IF Len(t.events) >= MAX_EVENTS THEN Threw(t, LIMIT_ERROR)
    ELSE LET time == t.time + 1 IN
         IF id.s \notin DOMAIN t.allocs
         THEN Returned([t EXCEPT
                 !.time = time,
                 !.allocs = <<>>,
                 !.events = Append(@, FreeEvent(time, "double_free", id.s))])
         ELSE Returned([t EXCEPT
                 !.time = time,
                 !.allocs = MapDelete(@, id.s),
                 !.events = Append(@, FreeEvent(time, "free", id.s))])

free_keepsEntry(t, id) ==
    IF id.ty # "string" THEN Threw(t, ID_ERROR)
    ELSE IF Len(t.events) >= MAX_EVENTS THEN Threw(t, LIMIT_ERROR)
    ELSE LET time == t.time + 1 IN
         IF id.s \notin DOMAIN t.allocs
         THEN Returned([t EXCEPT
                 !.time = time,
                 !.events = Append(@, FreeEvent(time, "double_free", id.s))])
         ELSE Returned([t EXCEPT
                 !.time = time,
                 !.events = Append(@, FreeEvent(time, "free", id.s))])

\* free(id) of the JavaScript surface.
free(t, id) ==
    IF id.ty # "string" THEN Threw(t, ID_ERROR)
    ELSE IF Len(t.events) >= MAX_EVENTS THEN Threw(t, LIMIT_ERROR)
    ELSE LET time == t.time + 1 IN
         IF id.s \notin DOMAIN t.allocs
         THEN Returned([t EXCEPT
                 !.time = time,
                 !.events = Append(@, FreeEvent(time, "double_free", id.s))])
         ELSE Returned([t EXCEPT
                 !.time = time,
                 !.allocs = MapDelete(@, id.s),
                 !.events = Append(@, FreeEvent(time, "free", id.s))])

\* int(size) of the Python surface for a finite size above zero: the
\* fraction is cut off.
int(size) == Num(size.n)

\* alloc(label, size) of the Python surface.
pyAlloc(t, label, size) ==
    IF label.ty # "string" THEN Threw(t, LABEL_ERROR)
    ELSE IF size.ty # "number" \/ LeqZero(size) THEN Threw(t, SIZE_ERROR)
    ELSE IF Len(t.events) >= MAX_EVENTS THEN Threw(t, LIMIT_ERROR)
    ELSE LET time == t.time + 1
             id == SynthId(label.s, time)
         IN  IF size = NaN
             THEN Threw([t EXCEPT !.time = time], INT_NAN_ERROR)
             ELSE
             Returned([t EXCEPT
                 !.time = time,
                 !.allocs = MapSet(@, id, [label |-> label, size |-> int(size)]),
                 !.events = Append(@, AllocEvent(time, id, int(size), label))])

pyFree_ticksFirst(t, id) ==
    IF id.ty # "string" THEN Threw(t, ID_ERROR)
    ELSE LET time == t.time + 1 IN
         IF Len(t.events) >= MAX_EVENTS
         THEN Threw([t EXCEPT !.time = time], LIMIT_ERROR)
         ELSE IF id.s \notin DOMAIN t.allocs
         THEN Returned([t EXCEPT
                 !.time = time,
                 !.events = Append(@, FreeEvent(time, "double_free", id.s))])
         ELSE Returned([t EXCEPT
                 !.time = time,
                 !.allocs = MapDelete(@, id.s),
                 !.events = Append(@, FreeEvent(time, "free", id.s))])

\* free(id) of the Python surface.
pyFree(t, id) ==
    IF id.ty # "string" THEN Threw(t, ID_ERROR)
    ELSE IF Len(t.events) >= MAX_EVENTS THEN Threw(t, LIMIT_ERROR)
    ELSE LET time == t.time + 1 IN
         IF id.s \notin DOMAIN t.allocs
         THEN Returned([t EXCEPT
                 !.time = time,
                 !.events = Append(@, FreeEvent(time, "double_free", id.s))])
         ELSE Returned([t EXCEPT
                 !.time = time,
                 !.allocs = MapDelete(@, id.s),
                 !.events = Append(@, FreeEvent(time, "free", id.s))])

markLeaks_always(t) ==
    [t EXCEPT !.time = t.time + 1,
              !.events = Append(@, EndEvent(t.time + 1))]

\* After the user code: one 'end' event when allocations remain.
markLeaks(t) ==
    IF DOMAIN t.allocs # {}
    THEN [t EXCEPT !.time = t.time + 1,
                   !.events = Append(@, EndEvent(t.time + 1))]
    ELSE t

\* lines.join('\n')
RECURSIVE JoinLines(_)
JoinLines(lines) ==
    IF lines = <<>> THEN ""
    ELSE IF Len(lines) = 1 THEN lines[1]
    ELSE lines[1] \o "\n" \o JoinLines(Tail(lines))

\* ------------------------------------------------- host, one request
\* Messages self.onmessage may be handed.
HostRequests ==
    { [type |-> "run", language |-> l] :
          l \in {"JavaScript", "Python", "Ruby"} }
        \cup { [type |-> "ping", language |-> "JavaScript"] }

\* The two modules that sandboxWorker's import of './jsRuntime' can resolve
\* to: runJs by indirect eval in the host, or runJs returning a Promise that
\* a nested Blob worker settles.
JsRuntimes == {"eval", "blob"}

\* Arguments user code passes to the tracking calls.
LabelArgs == {Str("a"), Str("a_1"), Str(""), Num(7)}
SizeArgs == {Num(1), Half(2), NaN, Num(0), Str("big")}
AllocatedIds(t) ==
    { t.events[i].f["id"] :
          i \in { j \in 1 .. Len(t.events) :
                      t.events[j].f["action"] = Str("alloc") } }
IdArgs(t) == AllocatedIds(t) \cup {Str("a_1"), Str("zz"), Num(7)}

\* The names the host deletes from its global object when it is constructed.
LockedApis ==
    {"fetch", "XMLHttpRequest", "WebSocket", "EventSource", "importScripts",
     "navigator"}

\* Global names of a freshly created worker: the network and script-loading
\* names, and names the host keeps.
WorkerGlobals == LockedApis \cup {"postMessage", "Worker", "setTimeout"}

\* for (const api of [...]) delete workerSelf[api]
lockdown(globals) == globals \ LockedApis

\* The global names of the host once its module has been evaluated.
HostGlobals == lockdown(WorkerGlobals)

\* The global names of the scope the user code runs in: the host's own
\* global for Python and for runJs by eval, a fresh worker created from a
\* Blob URL for the other runJs.
UserGlobals ==
    IF hreq.language = "JavaScript" /\ jsRuntime = "blob"
    THEN WorkerGlobals
    ELSE HostGlobals

\* ------------------------------------------------------ useMemoryAnalysis
\* The truth value of a property in a condition: undefined, '', 0 and NaN
\* are false.
ToBoolean(v) ==
    CASE v.ty = "undefined" -> FALSE
      [] v.ty = "string" -> v.s # ""
      [] v.ty = "number" -> ~(v = Num(0) \/ v = NaN)
      [] OTHER -> TRUE

\* bm.has(id); bm is kept as the sequence of its values in insertion order.
BmHas(bm, id) == \E i \in 1 .. Len(bm) : bm[i].id = id

\* bm.set(b.id, b): a known key keeps its place.
BmSet(bm, b) ==
    IF BmHas(bm, b.id)
    THEN [i \in 1 .. Len(bm) |-> IF bm[i].id = b.id THEN b ELSE bm[i]]
    ELSE Append(bm, b)

\* bm.get(id).status = status
BmSetStatus(bm, id, status) ==
    [i \in 1 .. Len(bm) |->
        IF bm[i].id = id THEN [bm[i] EXCEPT !.status = status] ELSE bm[i]]

\* bm.forEach(b => { if (b.status === 'active') b.status = 'leaked' })
BmMarkLeaked(bm) ==
    [i \in 1 .. Len(bm) |->
        IF bm[i].status = "active"
        THEN [bm[i] EXCEPT !.status = "leaked"] ELSE bm[i]]

\* The body of the loop over the events, up to the block map.
analysisStep(bm, e) ==
    LET action == e.f["action"]
        id == e.f["id"]
    IN  IF /\ action = Str("alloc")
           /\ ToBoolean(id)
           /\ ToBoolean(e.f["label"])
           /\ e.f["size"].ty # "undefined"
        THEN BmSet(bm, [id |-> id, label |-> e.f["label"],
                        size |-> e.f["size"], status |-> "active"])
        ELSE IF action = Str("free") /\ ToBoolean(id) /\ BmHas(bm, id)
        THEN BmSetStatus(bm, id, "freed")
        ELSE IF action = Str("double_free") /\ ToBoolean(id) /\ BmHas(bm, id)
        THEN BmSetStatus(bm, id, "double_free")
        ELSE IF action = Str("end")
        THEN BmMarkLeaked(bm)
        ELSE bm

\* The block map after the first n events.
RECURSIVE blockMap(_, _)
blockMap(events, n) ==
    IF n = 0 THEN <<>>
    ELSE analysisStep(blockMap(events, n - 1), events[n])

\* all.filter(b => b.status === status).length
CountStatus(all, status) ==
    Cardinality({i \in 1 .. Len(all) : all[i].status = status})

\* useMemoryAnalysis(events, currentStep): the blocks and the counts of the
\* statistics; currentStep counts from 0, -1 is before the first event.
\* The byte sums (snapshots, currentHeap, peakMem, leakedBytes) are not
\* followed.
useMemoryAnalysis(events, currentStep) ==
    LET last == IF currentStep < Len(events) - 1
                THEN currentStep ELSE Len(events) - 1
        all == blockMap(events, IF last < 0 THEN 0 ELSE last + 1)
    IN  [blocks |-> all,
         stats |-> [leakedCount |-> CountStatus(all, "leaked"),
                    freedCount |-> CountStatus(all, "freed"),
                    activeCount |-> CountStatus(all, "active"),
                    doubleFreeCount |-> CountStatus(all, "double_free"),
                    totalOps |-> IF currentStep + 1 < Len(events)
                                 THEN currentStep + 1 ELSE Len(events)]]

\* The call variables while no call on its own is followed.
CallOff ==
    /\ rawEvents = NotArray
    /\ validated = <<>>
    /\ userCode = <<>>
    /\ instrumented = <<>>
    /\ fpc = "off"

HostInit ==
    /\ Init
    /\ CallOff
    /\ jsRuntime \in JsRuntimes
    /\ hreq \in HostRequests
    /\ hpc = "idle"
    /\ tracker = NewTracker
    /\ posted = <<>>

\* The host variables while the controller model runs.
HostOff ==
    /\ jsRuntime = "eval"
    /\ hreq = [type |-> "ping", language |-> "JavaScript"]
    /\ hpc = "off"
    /\ tracker = NewTracker
    /\ posted = <<>>

\* A validated event as it travels in a message.
AsEntry(e) ==
    Obj([k \in AllFields |-> IF k \in DOMAIN e THEN e[k] ELSE Undef])

\* validateResult of the runtimes: raw is what the instrumented program
\* evaluated to.
validateResult(raw) ==
    IF raw.kind # "object" THEN Threw(raw, NO_RESULT_ERROR)
    ELSE IF ~raw.events.isArray
         THEN Threw(raw, "Invalid result: events is not an array")
    ELSE LET events == validateLoop(raw.events.items, <<>>) IN
         Returned([events |-> [i \in 1 .. Len(events) |-> AsEntry(events[i])],
                   stdout |-> raw.stdout, stderr |-> raw.stderr])

\* What the instrumented JavaScript evaluates to under eval: the value of
\* its last statement, the call of self.postMessage.
EvalCompletion ==
    [kind |-> "undefined", events |-> NotArray, stdout |-> "", stderr |-> ""]

\* What the instrumented Python evaluates to, parsed: _json.dumps({...}).
PyCompletion(t) ==
    [kind |-> "object", events |-> Arr(t.events),
     stdout |-> JoinLines(t.stdout), stderr |-> JoinLines(t.stderr)]

\* The 'result' self.onmessage builds from the fields of a value v.
HostResult(v) == ResultMsg(Arr(v.events), v.stdout, v.stderr)

\* result.events, result.stdout, result.stderr of a Promise.
PromiseResult == ResultMsg(NotArray, Undefined, Undefined)

\* The catch of self.onmessage.
HostCatch(text) == ErrorMsg(text, "", "")

hostOnmessage_statusAfterLoad ==
    /\ hpc = "idle"
    /\ IF hreq.type # "run"
       THEN hpc' = "ignored" /\ posted' = posted
       ELSE IF hreq.language = "JavaScript"
       THEN /\ hpc' = "user"
            /\ posted' = IF jsRuntime = "blob"
                         THEN Append(posted, PromiseResult)
                         ELSE posted
       ELSE IF hreq.language = "Python"
       THEN /\ hpc' = "loading"
            /\ posted' = posted
       ELSE /\ hpc' = "refused"
            /\ posted' =
                   Append(posted,
                          ErrorMsg("Unsupported language: Ruby", "", ""))
    /\ UNCHANGED <<jsRuntime, hreq, tracker>>
    /\ UNCHANGED <<vars, callVars>>

\* self.onmessage up to the first call of a runtime.
hostOnmessage ==
    /\ hpc = "idle"
    /\ IF hreq.type # "run"
       THEN hpc' = "ignored" /\ posted' = posted
       ELSE IF hreq.language = "JavaScript"
       THEN /\ hpc' = "user"
            /\ posted' = IF jsRuntime = "blob"
                         THEN Append(posted, PromiseResult)
                         ELSE posted
       ELSE IF hreq.language = "Python"
       THEN /\ hpc' = "loading"
            /\ posted' = Append(posted, StatusMsg)
       ELSE /\ hpc' = "refused"
            /\ posted' =
                   Append(posted,
                          ErrorMsg("Unsupported language: Ruby", "", ""))
    /\ UNCHANGED <<jsRuntime, hreq, tracker>>
    /\ UNCHANGED <<vars, callVars>>

\* runPython after onStatus: importScripts and loadPyodide succeed, or throw.
loadPyodide(ok) ==
    /\ hpc = "loading"
    /\ IF ok
       THEN hpc' = "user" /\ posted' = posted
       ELSE hpc' = "refused" /\ posted' = Append(posted, HostCatch(IMPORT_ERROR))
    /\ UNCHANGED <<jsRuntime, hreq, tracker>>
    /\ UNCHANGED <<vars, callVars>>

\* The messages that follow an error the user code does not catch.
ThrownMessages(t, text) ==
    IF hreq.language = "Python" THEN <<HostCatch(text)>>
    ELSE IF jsRuntime = "blob" THEN <<>>
    ELSE <<ErrorMsg(text, JoinLines(t.stdout), JoinLines(t.stderr)),
           HostCatch(validateResult(EvalCompletion).error)>>

\* The messages that follow the natural end of the user code.
ReturnedMessages(t) ==
    IF hreq.language = "Python"
    THEN <<HostResult(validateResult(PyCompletion(t)).trk)>>
    ELSE IF jsRuntime = "blob" THEN <<>>
    ELSE <<ResultMsg(Arr(t.events), JoinLines(t.stdout), JoinLines(t.stderr)),
           HostCatch(validateResult(EvalCompletion).error)>>

\* A tracking call of the user code ended with outcome r.
AfterCall(r) ==
    /\ tracker' = r.trk
    /\ IF r.error = Null
       THEN UNCHANGED <<hpc, posted>>
       ELSE /\ hpc' = "threw"
            /\ posted' = posted \o ThrownMessages(r.trk, r.error)
    /\ UNCHANGED <<jsRuntime, hreq>>
    /\ UNCHANGED <<vars, callVars>>

userAlloc(label, size) ==
    /\ hpc = "user"
    /\ AfterCall(IF hreq.language = "Python"
                 THEN pyAlloc(tracker, label, size)
                 ELSE alloc(tracker, label, size))

userFree(id) ==
    /\ hpc = "user"
    /\ AfterCall(IF hreq.language = "Python"
                 THEN pyFree(tracker, id)
                 ELSE free(tracker, id))

\* print / console.log
userPrint(text) ==
    /\ hpc = "user"
    /\ Len(tracker.stdout) < MaxLines
    /\ tracker' = [tracker EXCEPT !.stdout = Append(@, text)]
    /\ UNCHANGED <<jsRuntime, hreq, hpc, posted>>
    /\ UNCHANGED <<vars, callVars>>

\* console.error / console.warn / a write to sys.stderr
userWarn(text) ==
    /\ hpc = "user"
    /\ Len(tracker.stderr) < MaxLines
    /\ tracker' = [tracker EXCEPT !.stderr = Append(@, text)]
    /\ UNCHANGED <<jsRuntime, hreq, hpc, posted>>
    /\ UNCHANGED <<vars, callVars>>

\* The user code throws at run time.
userThrow ==
    /\ hpc = "user"
    /\ hpc' = "threw"
    /\ posted' = posted \o ThrownMessages(tracker, USER_ERROR)
    /\ UNCHANGED <<jsRuntime, hreq, tracker>>
    /\ UNCHANGED <<vars, callVars>>

\* The user code does not parse: nothing of the program runs.
userSyntaxError ==
    /\ hpc = "user"
    /\ tracker = NewTracker
    /\ hpc' = "threw"
    /\ posted' = IF hreq.language = "JavaScript" /\ jsRuntime = "blob"
                 THEN posted
                 ELSE Append(posted, HostCatch(SYNTAX_ERROR))
    /\ UNCHANGED <<jsRuntime, hreq, tracker>>
    /\ UNCHANGED <<vars, callVars>>

\* The user code reaches its end.
userEnd ==
    /\ hpc = "user"
    /\ LET t == markLeaks(tracker) IN
       /\ tracker' = t
       /\ posted' = posted \o ReturnedMessages(t)
    /\ hpc' = "returned"
    /\ UNCHANGED <<jsRuntime, hreq>>
    /\ UNCHANGED <<vars, callVars>>

HostNext ==
    \/ hostOnmessage
    \/ \E ok \in BOOLEAN : loadPyodide(ok)
    \/ \E label \in LabelArgs, size \in SizeArgs : userAlloc(label, size)
    \/ \E id \in IdArgs(tracker) : userFree(id)
    \/ \E text \in {"out"} : userPrint(text)
    \/ \E text \in {"warn"} : userWarn(text)
    \/ userThrow
    \/ userSyntaxError
    \/ userEnd

HostSpec == HostInit /\ [][HostNext]_hostVars

\* ------------------------------------------------ validateEvents, one call
\* Longest array handed to validateEvents.
MaxEntries == 3

EntryInputs ==
    { NullEntry, UndefinedEntry, PrimEntry, AllocEntry, FreeEntry, BadEntry,
      WrongTypedEntry, StringTimeEntry, NoActionEntry, UnknownActionEntry }

EntrySeqs == UNION { [1 .. k -> EntryInputs] : k \in 0 .. MaxEntries }

\* Values of msg.events: arrays of entries, and values that are not arrays
\* (null, undefined or a number; a string; a plain object).
RawInputs ==
    { Arr(items) : items \in EntrySeqs }
        \cup { NotArray,
               ArrayLike(<<PrimEntry, PrimEntry>>),
               ArrayLike(<<AllocEntry, FreeEntry>>) }

ValidatorInit ==
    /\ Init
    /\ HostOff
    /\ rawEvents \in RawInputs
    /\ validated = <<>>
    /\ userCode = <<>>
    /\ instrumented = <<>>
    /\ fpc = "validate"

\* const events = validateEvents(msg.events)
callValidateEvents ==
    /\ fpc = "validate"
    /\ validated' = validateEvents(rawEvents)
    /\ fpc' = "validated"
    /\ UNCHANGED <<rawEvents, userCode, instrumented>>
    /\ UNCHANGED <<vars, hostVars>>

ValidatorNext == callValidateEvents

ValidatorSpec == ValidatorInit /\ [][ValidatorNext]_callVars

\* --------------------------------------------- the transformers, one call
\* Longest user source handed to a transformer, in characters.
MaxChars == 3

\* Characters of a user source: two letters, a space and a line break.
Chars == {"a", "b", " ", "\n"}

SourceTexts == UNION { [1 .. k -> Chars] : k \in 0 .. MaxChars }

\* The template around ${userCode}: its text up to the user code, which
\* ends with a line break and two spaces, and its text after it.
JsPrologue == <<"'use strict'; ... try { // --- User code ---", "\n", " ", " ">>
JsEpilogue == <<"\n", "// --- End user code --- ... } catch (err) { ... }">>

instrumentJs(code) == JsPrologue \o code \o JsEpilogue

\* userCode.split('\n')
RECURSIVE SplitLines(_, _)
SplitLines(code, line) ==
    IF code = <<>> THEN <<line>>
    ELSE IF Head(code) = "\n" THEN <<line>> \o SplitLines(Tail(code), <<>>)
    ELSE SplitLines(Tail(code), Append(line, Head(code)))

\* (line) => '    ' + line
IndentLine(line) == <<" ", " ", " ", " ">> \o line

\* lines.join('\n') of lines of characters
RECURSIVE JoinText(_)
JoinText(lines) ==
    IF lines = <<>> THEN <<>>
    ELSE IF Len(lines) = 1 THEN lines[1]
    ELSE lines[1] \o <<"\n">> \o JoinText(Tail(lines))

indented(code) ==
    LET lines == SplitLines(code, <<>>)
    IN  JoinText([i \in 1 .. Len(lines) |-> IndentLine(lines[i])])

\* The template around ${indented}.
PyPrologue == <<"import json as _json ... def _run_user_code():", "\n">>
PyEpilogue == <<"\n", "_run_user_code() ... _json.dumps({...})">>

instrumentPython(code) == PyPrologue \o indented(code) \o PyEpilogue

InstrumentInit ==
    /\ Init
    /\ HostOff
    /\ rawEvents = NotArray
    /\ validated = <<>>
    /\ userCode \in SourceTexts
    /\ instrumented = <<>>
    /\ fpc = "instrument"

\* runJs: const instrumented = instrumentJs(userCode)
callInstrumentJs ==
    /\ fpc = "instrument"
    /\ instrumented' = instrumentJs(userCode)
    /\ fpc' = "js"
    /\ UNCHANGED <<rawEvents, validated, userCode>>
    /\ UNCHANGED <<vars, hostVars>>

\* runPython: const instrumented = instrumentPython(userCode)
callInstrumentPython ==
    /\ fpc = "instrument"
    /\ instrumented' = instrumentPython(userCode)
    /\ fpc' = "python"
    /\ UNCHANGED <<rawEvents, validated, userCode>>
    /\ UNCHANGED <<vars, hostVars>>

InstrumentNext ==
    \/ callInstrumentJs
    \/ callInstrumentPython

InstrumentSpec == InstrumentInit /\ [][InstrumentNext]_callVars

\* ----------------------------------------------------------- specification
Next ==
    \/ \E language \in Languages, code \in Codes : run(language, code)
    \/ stop
    \/ \E t \in timers : timeoutCallback(t)
    \/ \E w \in Workers, msg \in Msgs : onmessage(w, msg)
    \/ \E w \in Workers, text \in FaultTexts : onerror(w, text)
    \/ \E w \in Workers : workerOnmessage(w)
    \/ \E w \in Workers : workerResult(w)
    \/ \E w \in Workers : workerError(w)
    \/ \E w \in Workers, first \in {"result", "error"} :
           workerEvalReturn(w, first)
    \/ \E w \in Workers : workerFault(w)
    \/ \E w \in Workers : discard(w)

\* The controller starts; no host is followed in detail.
SpecInit == Init /\ HostOff /\ CallOff

Spec == SpecInit /\ [][Next]_vars

\* The event loop runs the callback of an armed timer once its delay has
\* passed.
FairSpec == Spec /\ WF_vars(\E t \in timers : timeoutCallback(t))

\* ------------------------------------------------------------------ claims
\* C1: at most one worker that has been created and not yet terminated
\* exists, after any sequence of run(), stop(), timer expiry, worker
\* messages and worker faults.
C1_AtMostOneActiveHost == Cardinality(Live) <= 1

\* C2: a message of a host that has been disposed, when it is still
\* delivered, changes neither the observable state nor workerRef nor the
\* armed timeout of the current run.
C2_DisposedHostIgnored ==
    [][\A w \in Workers, msg \in Msgs :
          (wpc[w] = "terminated" /\ onmessage(w, msg))
              => UNCHANGED <<state, workerRef, timeoutRef, timers>>]_vars

\* C3: when the watchdog fires (which happens only before a terminal message
\* of the current run was handled), the host of the run is terminated,
\* status becomes 'timeout' and error the fixed "... timed out ..." text.
C3_TimeoutDisposesHost ==
    [][\A t \in timers :
          timeoutCallback(t)
              => /\ workerRef = t.id
                 /\ wpc'[t.id] = "terminated"
                 /\ workerRef' = NoRef
                 /\ timeoutRef' = NoRef
                 /\ timers' = {}
                 /\ state'.status = "timeout"
                 /\ state'.error = TIMEOUT_ERROR]_vars

C3_Witness ==
    /\ state.status = "timeout"
    /\ state.error = TIMEOUT_ERROR
    /\ workerRef = NoRef
    /\ nextId > 1
    /\ wpc[nextId - 1] = "terminated"

\* C4: once status is 'timeout' for a run, a result or error message of
\* that run (the latest one) arriving afterwards leaves status 'timeout'.
C4_TimeoutWinsRace ==
    [][\A w \in Workers, msg \in ResultMsgs \cup ErrorMsgs :
          (/\ state.status = "timeout"
           /\ w = nextId - 1
           /\ onmessage(w, msg))
              => state'.status = "timeout"]_vars

\* Run k is the one whose worker and timer have id k.
RunStarted(k) ==
    /\ nextId = k + 1
    /\ workerRef = k
    /\ state.status = "running"

RunEnded(k) ==
    \/ state.status \in {"success", "error", "timeout", "idle"}
    \/ nextId > k + 1

C7_BlankCodeIsError ==
    [][\A language \in Languages, code \in Codes :
          (IsBlank(code) /\ run(language, code))
              => /\ state' = [INITIAL_STATE EXCEPT !.status = "error",
                                                   !.error = NO_CODE_ERROR]
                 /\ nextId' = nextId
                 /\ Len(wpc') = Len(wpc)
                 /\ timers' = {}
                 /\ timeoutRef' = NoRef
                 /\ workerRef' = NoRef
                 /\ sent' = sent
                 /\ \A w \in Workers : Len(inbox'[w]) <= Len(inbox[w])]_vars

C7_Witness ==
    /\ state.status = "error"
    /\ state.error = NO_CODE_ERROR
    /\ nextId > 1
    /\ Live = {}

\* C8: run() with non-blank code, from any state, resets the observable
\* state to the initial one with status 'running', creates a fresh worker,
\* arms the 10,000 ms timeout and posts exactly one run message with the
\* given language and code to that worker.
C8_RunStartsFreshHost ==
    [][\A language \in Languages, code \in Codes :
          (~IsBlank(code) /\ run(language, code))
              => /\ state' = [status |-> "running", events |-> <<>>,
                              stdout |-> "", stderr |-> "", error |-> Null]
                 /\ workerRef' = nextId
                 /\ workerRef' \notin Workers
                 /\ wpc'[workerRef'] = "idle"
                 /\ timeoutRef' # NoRef
                 /\ timers' = {[id |-> timeoutRef', ms |-> 10000]}
                 /\ inbox'[workerRef'] =
                       <<[type |-> "run", language |-> language,
                          code |-> code]>>
                 /\ sent'[workerRef'] = 1
                 /\ \A w \in Workers :
                       sent'[w] = sent[w] /\ Len(inbox'[w]) <= Len(inbox[w])]_vars

C8_Witness ==
    /\ state.status = "running"
    /\ workerRef = nextId - 1
    /\ workerRef > 1
    /\ inbox[workerRef] # <<>>
    /\ Head(inbox[workerRef]).code = <<" ", "a", " ">>
    /\ timers = {[id |-> workerRef, ms |-> 10000]}

\* C9: a 'status' message of the current host while status is 'running'
\* sets status to 'loading-pyodide' and leaves the armed timeout, the
\* worker, events, stdout, stderr and error unchanged.
C9_StatusKeepsRunArmed ==
    [][\A w \in Workers :
          (/\ w = workerRef
           /\ state.status = "running"
           /\ onmessage(w, StatusMsg))
              => /\ state' = [state EXCEPT !.status = "loading-pyodide"]
                 /\ UNCHANGED <<timeoutRef, timers, workerRef, wpc>>]_vars

C9_Witness ==
    /\ state.status = "loading-pyodide"
    /\ workerRef # NoRef
    /\ wpc[workerRef] = "runPython"
    /\ timeoutRef = workerRef
    /\ timers = {[id |-> workerRef, ms |-> 10000]}

\* C10: a 'result' message sets status 'success' whether or not the
\* validated event list is empty; error is the "no memory events" advisory
\* iff that list is empty and null otherwise; stdout and stderr are the
\* message's.
C10_ResultIsSuccess ==
    [][\A w \in Workers, msg \in ResultMsgs :
          onmessage(w, msg)
              => /\ state'.status = "success"
                 /\ state'.events = validateEvents(msg.events)
                 /\ (state'.events = <<>>) <=> (state'.error = NO_EVENTS_HINT)
                 /\ (state'.events # <<>>) <=> (state'.error = Null)
                 /\ state'.stdout = msg.stdout
                 /\ state'.stderr = msg.stderr]_vars

C10_Witness ==
    /\ state.status = "success"
    /\ state.events = <<>>
    /\ state.error = NO_EVENTS_HINT
    /\ state.stdout = "hi"

\* C11: a terminal message (result or error) handled by the controller
\* leaves no watchdog timer armed and its host terminated; a terminated host
\* stays terminated and is sent nothing; no worker is ever sent more than one
\* run message, and run() with non-blank code posts to a worker that did not
\* exist before.
C11_HostNeverReused ==
    [][/\ \A w \in Workers, msg \in ResultMsgs \cup ErrorMsgs :
             onmessage(w, msg)
                 => /\ wpc'[w] = "terminated"
                    /\ timers' = {}
                    /\ timeoutRef' = NoRef
                    /\ workerRef' = NoRef
       /\ \A w \in Workers :
             wpc[w] = "terminated"
                 => /\ wpc'[w] = "terminated"
                    /\ inbox'[w] = <<>>
                    /\ sent'[w] = sent[w]
       /\ \A w \in 1 .. (nextId' - 1) : sent'[w] <= 1
       /\ \A language \in Languages, code \in Codes :
             (~IsBlank(code) /\ run(language, code))
                 => /\ workerRef' \notin Workers
                    /\ inbox'[workerRef'] # <<>>
                    /\ \A w \in Workers : inbox'[w] = <<>> \/ inbox'[w] = inbox[w]]_vars

C11_Witness ==
    /\ nextId > 2
    /\ state.status = "success"
    /\ state.events # <<>>
    /\ workerRef = NoRef
    /\ timers = {}
    /\ \A w \in Workers : wpc[w] = "terminated" /\ sent[w] = 1 /\ outbox[w] = <<>>

\* C12: a terminal 'error' message sets status 'error', error to the
\* message's error text, events to the empty list, and stdout and stderr to
\* the values the message carries.
C12_ErrorMessageState ==
    [][\A w \in Workers, msg \in ErrorMsgs :
          onmessage(w, msg)
              => state' = [status |-> "error", events |-> <<>>,
                           stdout |-> msg.stdout, stderr |-> msg.stderr,
                           error |-> msg.error]]_vars

C12_Witness ==
    /\ state.status = "error"
    /\ state.error = "SyntaxError: unexpected token"
    /\ state.events = <<>>
    /\ state.stdout = "partial"
    /\ state.stderr = "oops"

\* C13: worker.onerror of a host puts the controller in status 'error' with
\* the fault's message, or 'Worker error' when that message is empty, with
\* events empty, no timer armed and the faulting host terminated.
C13_HostFaultIsError ==
    [][\A w \in Workers, text \in FaultTexts :
          onerror(w, text)
              => /\ state'.status = "error"
                 /\ state'.error = (IF text = "" THEN "Worker error" ELSE text)
                 /\ state'.events = <<>>
                 /\ timers' = {}
                 /\ timeoutRef' = NoRef
                 /\ wpc'[w] = "terminated"]_vars

\* C13 for the host the controller holds: worker.onerror of the current
\* worker.
C13_CurrentHostFaultIsError ==
    [][\A w \in Workers, text \in FaultTexts :
          (w = workerRef /\ onerror(w, text))
              => /\ state'.status = "error"
                 /\ state'.error = (IF text = "" THEN "Worker error" ELSE text)
                 /\ state'.events = <<>>
                 /\ timers' = {}
                 /\ timeoutRef' = NoRef
                 /\ wpc'[w] = "terminated"]_vars

\* ------------------------------------------------- claims about the host
Terminal(m) == m.type \in {"result", "error"}
TerminalAt(msgs) == { i \in 1 .. Len(msgs) : Terminal(msgs[i]) }
Completed == hpc \in {"returned", "threw", "refused"}
ActionsAt(events, action) ==
    { i \in 1 .. Len(events) : events[i].f["action"] = Str(action) }

\* C14: for a run request the host posts at most one terminal message, and
\* once the handling has completed (user code returned, user code threw or
\* hit the event ceiling, language unsupported) exactly one.
C14_OneTerminalMessage ==
    /\ Cardinality(TerminalAt(posted)) <= 1
    /\ Completed => Cardinality(TerminalAt(posted)) = 1

\* C15: a Python run posts 'loading-pyodide' first, before Pyodide is
\* loaded and before any terminal message, and only once; a completed run
\* never ends with a status message; a JavaScript run posts no status.
C15_StatusBeforeLoad ==
    /\ (hreq.type = "run" /\ hreq.language = "Python" /\ hpc # "idle")
           => /\ posted # <<>>
              /\ posted[1] = StatusMsg
              /\ \A i \in 2 .. Len(posted) : posted[i].type # "status"
    /\ hpc = "loading" => posted = <<StatusMsg>>
    /\ hreq.language # "Python"
           => \A i \in 1 .. Len(posted) : posted[i].type # "status"
    /\ Completed => posted # <<>> /\ posted[Len(posted)].type # "status"

C15_Witness ==
    /\ hreq.language = "Python"
    /\ hpc = "returned"
    /\ Len(posted) = 2
    /\ posted[1].type = "status"
    /\ posted[2].type = "result"
    /\ posted[2].events.items # <<>>

\* C16: when user code fails after writing output, the first terminal
\* message of the host is an 'error' whose stdout and stderr are the text
\* captured before the failure.
C16_ErrorCarriesOutput ==
    (hpc = "threw" /\ tracker.stdout # <<>> /\ tracker.stderr # <<>>)
        => /\ TerminalAt(posted) # {}
           /\ LET first == CHOOSE i \in TerminalAt(posted) :
                               \A j \in TerminalAt(posted) : i <= j
              IN  /\ posted[first].type = "error"
                  /\ posted[first].stdout = JoinLines(tracker.stdout)
                  /\ posted[first].stderr = JoinLines(tracker.stderr)

C18_AllocIdsUnique ==
    \A i, j \in ActionsAt(tracker.events, "alloc") :
        i # j => tracker.events[i].f["id"] # tracker.events[j].f["id"]

C18_Witness ==
    /\ Len(tracker.events) = 3
    /\ ActionsAt(tracker.events, "alloc") = {1, 3}
    /\ ActionsAt(tracker.events, "free") = {2}
    /\ tracker.events[1].f["label"] = tracker.events[3].f["label"]
    /\ tracker.events[2].f["id"] = tracker.events[1].f["id"]

\* Ids allocated and not freed afterwards, read off the event list.
LiveByEvents(events) ==
    { events[i].f["id"] :
          i \in { a \in ActionsAt(events, "alloc") :
                      ~\E f \in ActionsAt(events, "free") :
                           f > a /\ events[f].f["id"] = events[a].f["id"] } }

\* C19: when user code has returned, the event list holds an 'end' event
\* iff an allocation is still live; there is at most one and it is last.
\* While user code runs, and when it failed, there is none.
C19_EndIffLeak ==
    LET ends == ActionsAt(tracker.events, "end")
        body == SubSeq(tracker.events, 1,
                       Len(tracker.events) - Cardinality(ends))
    IN  /\ hpc # "returned" => ends = {}
        /\ hpc = "returned"
              => /\ ends \subseteq {Len(tracker.events)}
                 /\ (ends # {}) <=> (LiveByEvents(body) # {})
                 /\ \A i \in 1 .. Len(posted) :
                        (posted[i].type = "result" /\ posted[i].events.isArray)
                            => posted[i].events.items = tracker.events

C19_Witness ==
    /\ hpc = "returned"
    /\ Len(tracker.events) = 4
    /\ ActionsAt(tracker.events, "free") = {2}
    /\ ActionsAt(tracker.events, "end") = {4}
    /\ \E i \in 1 .. Len(posted) :
           posted[i].type = "result" /\ posted[i].events.items = tracker.events

\* C20 as stated: free(id) of a string id that is not live appends a
\* 'double_free' event with that id, leaves the table unchanged, raises no
\* error, and the user code goes on.
C20_DoubleFreeRecorded ==
    [][\A id \in IdArgs(tracker) :
          (/\ id.ty = "string"
           /\ id.s \notin DOMAIN tracker.allocs
           /\ userFree(id))
              => /\ tracker'.events =
                       Append(tracker.events,
                              FreeEvent(tracker.time + 1, "double_free", id.s))
                 /\ tracker'.allocs = tracker.allocs
                 /\ hpc' = "user"
                 /\ posted' = posted]_hostVars

\* C20, amended: the same while fewer events than the ceiling have been
\* recorded; at the ceiling the call raises the event-limit error instead.
C20_DoubleFreeBelowCeiling ==
    [][\A id \in IdArgs(tracker) :
          (/\ id.ty = "string"
           /\ id.s \notin DOMAIN tracker.allocs
           /\ userFree(id))
              => IF Len(tracker.events) < MAX_EVENTS
                 THEN /\ tracker'.events =
                            Append(tracker.events,
                                   FreeEvent(tracker.time + 1, "double_free",
                                             id.s))
                      /\ tracker'.allocs = tracker.allocs
                      /\ tracker'.time = tracker.time + 1
                      /\ hpc' = "user"
                      /\ posted' = posted
                 ELSE /\ tracker' = tracker
                      /\ hpc' = "threw"]_hostVars

C20_Witness ==
    /\ hpc = "user"
    /\ Len(tracker.events) = 3
    /\ ActionsAt(tracker.events, "alloc") = {1}
    /\ ActionsAt(tracker.events, "double_free") = {2}
    /\ ActionsAt(tracker.events, "free") = {3}
    /\ DOMAIN tracker.allocs = {}

\* The first terminal message of a sequence that holds one.
FirstTerminal(msgs) ==
    msgs[CHOOSE i \in TerminalAt(msgs) : \A j \in TerminalAt(msgs) : i <= j]

\* msgs holds a terminal message, the first is an 'error' carrying text,
\* and none is a 'result'.
EndsInError(msgs, text) ==
    /\ TerminalAt(msgs) # {}
    /\ FirstTerminal(msgs).type = "error"
    /\ FirstTerminal(msgs).error = text
    /\ \A i \in TerminalAt(msgs) : msgs[i].type # "result"

\* The user code makes a tracking call with well-typed arguments when the
\* event list already holds MAX_EVENTS events.
CallAtCeiling ==
    /\ hpc = "user"
    /\ Len(tracker.events) >= MAX_EVENTS
    /\ \/ \E label \in LabelArgs, size \in SizeArgs :
              /\ label.ty = "string"
              /\ size.ty = "number" /\ ~LeqZero(size)
              /\ userAlloc(label, size)
       \/ \E id \in IdArgs(tracker) : id.ty = "string" /\ userFree(id)

\* C21: a tracking call beyond the event ceiling, alloc or free (a free of
\* an id that is not live included), ends the run: the host's terminal
\* message is an 'error' carrying the event-limit text, never a 'result'.
C21_LimitEndsInError ==
    [][CallAtCeiling => /\ hpc' = "threw"
                        /\ EndsInError(posted', LIMIT_ERROR)]_hostVars

\* The part of C21 that holds: the call at the ceiling throws and records
\* nothing, and a Python host or a host running the program by eval posts
\* the event-limit 'error' as its first terminal message.
C21_LimitThrows ==
    [][CallAtCeiling
          => /\ hpc' = "threw"
             /\ tracker' = tracker
             /\ (hreq.language = "Python" \/ jsRuntime = "eval")
                    => EndsInError(posted', LIMIT_ERROR)]_hostVars

\* C22: no 'result' the host posts carries more than MAX_EVENTS events,
\* the 'end' event counted.
C22_ResultWithinCeiling ==
    \A i \in 1 .. Len(posted) :
        (posted[i].type = "result" /\ posted[i].events.isArray)
            => Len(posted[i].events.items) <= MAX_EVENTS

\* A number greater than zero.
GreaterThanZero(v) == v.ty = "number" /\ v.s # "NaN" /\ ~LeqZero(v)

\* C23: alloc with a label that is not a string, alloc with a size that is
\* not a number greater than zero, and free with an id that is not a string
\* end the run in an 'error' carrying the matching text, never a 'result'.
C23_InvalidArgEndsInError ==
    [][/\ \A label \in LabelArgs, size \in SizeArgs :
              (/\ hpc = "user"
               /\ label.ty # "string" \/ ~GreaterThanZero(size)
               /\ userAlloc(label, size))
                  => /\ hpc' = "threw"
                     /\ EndsInError(posted',
                                    IF label.ty # "string"
                                    THEN LABEL_ERROR ELSE SIZE_ERROR)
       /\ \A id \in IdArgs(tracker) :
              (hpc = "user" /\ id.ty # "string" /\ userFree(id))
                  => /\ hpc' = "threw"
                     /\ EndsInError(posted', ID_ERROR)]_hostVars

\* The part of C23 that holds: an argument the tracking call checks and
\* refuses throws the matching error and records nothing, and a Python host
\* or a host running the program by eval posts it as first terminal message.
C23_RefusedArgThrows ==
    [][/\ \A label \in LabelArgs, size \in SizeArgs :
              (/\ hpc = "user"
               /\ label.ty # "string" \/ size.ty # "number" \/ LeqZero(size)
               /\ userAlloc(label, size))
                  => /\ hpc' = "threw"
                     /\ tracker' = tracker
                     /\ (hreq.language = "Python" \/ jsRuntime = "eval")
                            => EndsInError(posted',
                                           IF label.ty # "string"
                                           THEN LABEL_ERROR ELSE SIZE_ERROR)
       /\ \A id \in IdArgs(tracker) :
              (hpc = "user" /\ id.ty # "string" /\ userFree(id))
                  => /\ hpc' = "threw"
                     /\ tracker' = tracker
                     /\ (hreq.language = "Python" \/ jsRuntime = "eval")
                            => EndsInError(posted', ID_ERROR)]_hostVars

\* ------------------------------------------ claims about validateEvents
\* C24: for an input that is not an array (null, undefined, a number, a
\* string, a plain object, whatever members it has) validateEvents returns
\* the empty sequence.
C24_NonArrayGivesEmpty ==
    (fpc = "validated" /\ ~rawEvents.isArray) => validated = <<>>

C24_Witness ==
    /\ fpc = "validated"
    /\ rawEvents = ArrayLike(<<AllocEntry, FreeEntry>>)
    /\ validated = <<>>

\* An entry that is a non-null object with a numeric time and a string
\* action.
WellFormed(ev) ==
    /\ ev.kind = "object"
    /\ ev.f["time"].ty = "number"
    /\ ev.f["action"].ty = "string"

WellFormedAt(items) == { i \in 1 .. Len(items) : WellFormed(items[i]) }

\* The position in the output of the well-formed entry at position i.
Rank(items, i) == Cardinality({ j \in WellFormedAt(items) : j <= i })

\* C25: for an array, the output holds one event per well-formed entry
\* (non-null object, numeric time, string action), in the order of the
\* input, each with the time and action of its entry; every other entry is
\* dropped, so the output is never longer than the input.
C25_OrderPreservingFilter ==
    (fpc = "validated" /\ rawEvents.isArray)
        => LET items == rawEvents.items IN
           /\ Len(validated) = Cardinality(WellFormedAt(items))
           /\ Len(validated) <= Len(items)
           /\ \A i \in WellFormedAt(items) :
                  /\ validated[Rank(items, i)]["time"] = items[i].f["time"]
                  /\ validated[Rank(items, i)]["action"]
                         = items[i].f["action"]

C25_Witness ==
    /\ fpc = "validated"
    /\ rawEvents = Arr(<<FreeEntry, NullEntry, AllocEntry>>)
    /\ Len(validated) = 2
    /\ validated[1]["action"] = Str("free")
    /\ validated[2]["action"] = Str("alloc")

\* The optional fields of an entry that have the right type.
RightTyped(ev) ==
    { k \in {"id", "label"} : ev.f[k].ty = "string" }
        \cup { k \in {"size"} : ev.f[k].ty = "number" }

\* C26: the event of a kept entry has id only if the entry's id is a
\* string, size only if it is a number, label only if it is a string, with
\* the entry's value; a wrong-typed optional field is left out and the
\* entry is still kept.
C26_OptionalFieldsByType ==
    (fpc = "validated" /\ rawEvents.isArray)
        => LET items == rawEvents.items IN
           /\ Len(validated) = Cardinality(WellFormedAt(items))
           /\ \A i \in WellFormedAt(items) :
                  LET e == validated[Rank(items, i)] IN
                  /\ DOMAIN e \cap {"id", "size", "label"}
                         = RightTyped(items[i])
                  /\ \A k \in RightTyped(items[i]) : e[k] = items[i].f[k]

C26_Witness ==
    /\ fpc = "validated"
    /\ rawEvents = Arr(<<AllocEntry, WrongTypedEntry>>)
    /\ Len(validated) = 2
    /\ DOMAIN validated[1] = {"time", "action", "id", "size", "label"}
    /\ DOMAIN validated[2] = {"time", "action"}

\* C27: every event of the output has keys among time, action, id, size
\* and label only, whatever other properties its entry had.
C27_NoForeignKeys ==
    fpc = "validated"
        => \A k \in 1 .. Len(validated) :
               DOMAIN validated[k]
                   \subseteq {"time", "action", "id", "size", "label"}

C27_Witness ==
    /\ fpc = "validated"
    /\ rawEvents = Arr(<<WrongTypedEntry>>)
    /\ rawEvents.items[1].f["extra"] = Str("evil")
    /\ Len(validated) = 1
    /\ "extra" \notin DOMAIN validated[1]

\* type MemoryAction
MemoryAction == {"alloc", "free", "double_free", "end"}

\* C28: every event validateEvents outputs has an action among alloc,
\* free, double_free and end.
C28_ActionIsMemoryAction ==
    fpc = "validated"
        => \A k \in 1 .. Len(validated) :
               /\ validated[k]["action"].ty = "string"
               /\ validated[k]["action"].s \in MemoryAction

\* --------------------------------- claims about the two instrumentations
NumericSizes == { size \in SizeArgs : size.ty = "number" }

\* Two outcomes of a tracking call agree: both returned or both threw, and
\* the event lists after the call are the same.
SameOutcome(a, p) ==
    /\ (a.error = Null) <=> (p.error = Null)
    /\ a.trk.events = p.trk.events

\* C29: from the same recorded history the JavaScript and the Python
\* tracking calls accept and reject the same calls, with any label, any
\* numeric size and any id, and record the same events.
C29_SameContract ==
    hpc = "user"
        => /\ \A label \in LabelArgs, size \in NumericSizes :
                  SameOutcome(alloc(tracker, label, size),
                              pyAlloc(tracker, label, size))
           /\ \A id \in IdArgs(tracker) :
                  SameOutcome(free(tracker, id), pyFree(tracker, id))

\* The part of C29 that holds: the two agree on every call whose size is a
\* whole number, and on every free.
C29_SameOnWholeSizes ==
    hpc = "user"
        => /\ \A label \in LabelArgs, size \in NumericSizes :
                  size.s = ""
                      => SameOutcome(alloc(tracker, label, size),
                                     pyAlloc(tracker, label, size))
           /\ \A id \in IdArgs(tracker) :
                  SameOutcome(free(tracker, id), pyFree(tracker, id))

\* part occurs in text as a contiguous run of characters.
Contains(text, part) ==
    \E i \in 0 .. Len(text) - Len(part) :
        SubSeq(text, i + 1, i + Len(part)) = part

\* C30: the program either transformer returns contains the user source,
\* character for character and contiguous, for every source text.
C30_SourceVerbatim ==
    fpc \in {"js", "python"} => Contains(instrumented, userCode)

\* The part of C30 that holds: instrumentJs embeds every source verbatim,
\* instrumentPython every source of one line.
C30_VerbatimJsOrOneLine ==
    /\ fpc = "js" => Contains(instrumented, userCode)
    /\ (fpc = "python" /\ \A i \in 1 .. Len(userCode) : userCode[i] # "\n")
           => Contains(instrumented, userCode)

\* ------------------------------------------------ claims, fourth group
\* C31: in every state in which user code executes, none of fetch,
\* XMLHttpRequest, WebSocket, EventSource, importScripts and navigator is a
\* global name of the scope it executes in.
C31_UserCodeLockedDown ==
    hpc = "user" => UserGlobals \cap LockedApis = {}

\* The part of C31 that holds: the host's own global holds none of the six
\* names from its construction on, in every state of the handling of a
\* message.
C31_HostLockedDown ==
    /\ HostGlobals \cap LockedApis = {}
    /\ (hpc = "user" /\ (hreq.language = "Python" \/ jsRuntime = "eval"))
           => UserGlobals \cap LockedApis = {}

\* C32: whenever the controller's status is 'idle', events is empty, stdout
\* and stderr are '' and error is null.
C32_IdleIsEmpty ==
    state.status = "idle"
        => /\ state.events = <<>>
           /\ state.stdout = ""
           /\ state.stderr = ""
           /\ state.error = Null

\* cleanup() invoked in the current state: what it leaves.
Disposed == cleanup(Refs)

\* C33: cleanup() always disposes: it leaves both refs null, the timer that
\* was referenced cleared and the worker that was referenced terminated.
\* With no timer referenced it touches no timer, with no worker referenced
\* no worker, and a second cleanup() changes nothing. After each trigger
\* (stop, the timeout callback, a host fault, a run with blank code) a
\* further cleanup() is a no-op.
C33_CleanupIdempotent ==
    /\ [](/\ cleanup(Disposed) = Disposed
          /\ Disposed.timeoutRef = NoRef
          /\ Disposed.workerRef = NoRef
          /\ timeoutRef # NoRef
                 => \A t \in Disposed.timers : t.id # timeoutRef
          /\ workerRef # NoRef => Disposed.wpc[workerRef] = "terminated"
          /\ timeoutRef = NoRef => Disposed.timers = timers
          /\ workerRef = NoRef
                 => Disposed.wpc = wpc /\ Disposed.inbox = inbox
          /\ (timeoutRef = NoRef /\ workerRef = NoRef) => Disposed = Refs)
    /\ [][(\/ stop
           \/ \E t \in timers : timeoutCallback(t)
           \/ \E w \in Workers, text \in FaultTexts : onerror(w, text)
           \/ \E language \in Languages, code \in Codes :
                  IsBlank(code) /\ run(language, code))
              => /\ workerRef' = NoRef
                 /\ timeoutRef' = NoRef
                 /\ workerRef # NoRef => wpc'[workerRef] = "terminated"
                 /\ Disposed' = Refs']_vars

\* A run was superseded, the next one timed out: cleanup() has run with a
\* host active and with none, and nothing is left to dispose.
C33_Witness ==
    /\ state.status = "timeout"
    /\ Cardinality(Terminated) >= 2
    /\ Live = {}
    /\ workerRef = NoRef
    /\ timeoutRef = NoRef
    /\ timers = {}

\* A call alloc(label, size) of the user code that returns.
AllocReturns(label, size) ==
    /\ hpc = "user"
    /\ userAlloc(label, size)
    /\ hpc' = "user"

\* C34: a successful alloc(label, size) appends one alloc event whose time
\* t is the counter after the call, whose id is label + "_" + t and which
\* carries the given size and the given label, and records that id in the
\* allocation table.
C34_AllocRecordsId ==
    [][\A label \in LabelArgs, size \in SizeArgs :
          AllocReturns(label, size)
              => LET t == tracker'.time
                     id == SynthId(label.s, t)
                 IN  /\ t = tracker.time + 1
                     /\ tracker'.events =
                            Append(tracker.events,
                                   AllocEvent(t, id, size, label))
                     /\ DOMAIN tracker'.allocs = DOMAIN tracker.allocs \cup {id}
                     /\ id \notin DOMAIN tracker.allocs]_hostVars

\* The part of C34 that holds: the same for every JavaScript run, and for a
\* Python run with int(size) in place of the given size.
C34_AllocRecordsIdIntSize ==
    [][\A label \in LabelArgs, size \in SizeArgs :
          AllocReturns(label, size)
              => LET t == tracker'.time
                     id == SynthId(label.s, t)
                     recorded == IF hreq.language = "Python"
                                 THEN int(size) ELSE size
                 IN  /\ t = tracker.time + 1
                     /\ tracker'.events =
                            Append(tracker.events,
                                   AllocEvent(t, id, recorded, label))
                     /\ DOMAIN tracker'.allocs = DOMAIN tracker.allocs \cup {id}
                     /\ id \notin DOMAIN tracker.allocs]_hostVars

\* The errors of the argument checks and of the event-limit check.
CheckErrors == {LABEL_ERROR, SIZE_ERROR, ID_ERROR, LIMIT_ERROR}

\* The outcome of the tracking call the user code is making.
AllocOutcome(label, size) ==
    IF hreq.language = "Python"
    THEN pyAlloc(tracker, label, size) ELSE alloc(tracker, label, size)
FreeOutcome(id) ==
    IF hreq.language = "Python" THEN pyFree(tracker, id) ELSE free(tracker, id)

C36_TableMatchesEvents ==
    /\ { Str(id) : id \in DOMAIN tracker.allocs }
           = LiveByEvents(tracker.events)
    /\ Cardinality(ActionsAt(tracker.events, "free"))
           <= Cardinality(ActionsAt(tracker.events, "alloc"))

C36_Witness ==
    /\ hpc = "user"
    /\ Len(tracker.events) = 3
    /\ ActionsAt(tracker.events, "alloc") = {1}
    /\ ActionsAt(tracker.events, "double_free") = {2}
    /\ ActionsAt(tracker.events, "free") = {3}
    /\ tracker.events[2].f["id"] # tracker.events[1].f["id"]
    /\ tracker.events[3].f["id"] = tracker.events[1].f["id"]
    /\ tracker.allocs = <<>>

\* The timer timeoutRef points to is armed.
TimerArmed ==
    timeoutRef # NoRef /\ \E t \in timers : t.id = timeoutRef

\* workerRef points to a worker that has not been terminated.
HoldsLiveWorker ==
    workerRef # NoRef /\ wpc[workerRef] # "terminated"

\* C37: the watchdog timer is armed if and only if the controller holds a
\* reference to a worker that is not terminated.
C37_TimerIffWorker == TimerArmed <=> HoldsLiveWorker

\* A run is under way: its worker is referenced and its timer armed.
C37_Witness ==
    /\ TimerArmed
    /\ HoldsLiveWorker
    /\ state.status = "loading-pyodide"
    /\ Terminated # {}

\* C38: status is 'running' or 'loading-pyodide' if and only if the
\* controller holds a worker that is not terminated and whose timeout is
\* armed.
C38_BusyIffActiveRun ==
    Busy(state.status) <=> (HoldsLiveWorker /\ TimerArmed)

\* The part of C38 that holds: while the controller holds a live worker
\* with an armed timeout, status is 'running' or 'loading-pyodide'.
C38_ActiveRunIsBusy ==
    (HoldsLiveWorker /\ TimerArmed) => Busy(state.status)

\* C39: stop() invoked while status is idle, success, error or timeout
\* leaves status, events, stdout, stderr and error as they were.
C39_StopWhenNotBusy ==
    [][(~Busy(state.status) /\ stop) => state' = state]_vars

\* A finished run with output, in which stop() may be invoked.
C39_Witness ==
    /\ state.status = "success"
    /\ state.events # <<>>
    /\ state.stdout # ""
    /\ state.error = Null
    /\ workerRef = NoRef
    /\ timeoutRef = NoRef

\* The analysis over the whole trace of the tracker.
FullAnalysis == useMemoryAnalysis(tracker.events, Len(tracker.events) - 1)
AllocEvents(events) ==
    {i \in 1 .. Len(events) : events[i].f["action"] = Str("alloc")}
HasEnd(events) ==
    \E i \in 1 .. Len(events) : events[i].f["action"] = Str("end")

\* C40: over every trace the tracker produces, labels of any string
\* included, the analysis of the full trace has as many blocks as the trace
\* has alloc events, and once the trace has its 'end' event leakedCount is
\* the number of allocations that were live when the run completed.
C40_BlockPerAlloc ==
    /\ Len(FullAnalysis.blocks) = Cardinality(AllocEvents(tracker.events))
    /\ HasEnd(tracker.events) =>
           FullAnalysis.stats.leakedCount = Cardinality(DOMAIN tracker.allocs)

\* The part of C40 that holds: the blocks are the alloc events whose label
\* is not the empty string, and after 'end' the leaked blocks are the live
\* allocations whose label is not the empty string.
C40_BlockPerLabelledAlloc ==
    /\ Len(FullAnalysis.blocks) =
           Cardinality({i \in AllocEvents(tracker.events) :
                            tracker.events[i].f["label"] # Str("")})
    /\ HasEnd(tracker.events) =>
           FullAnalysis.stats.leakedCount =
               Cardinality({id \in DOMAIN tracker.allocs :
                                tracker.allocs[id].label # Str("")})

====
